---- MODULE Spec2Model ----
(***************************************************************************)
(* Model of the persistent message buffer of the MQTT / OPC-UA / SAP       *)
(* bridge (src/persistent_buffer.py) and of the workers that lease from it *)
(* (src/mqtt_opcua_bridge.py, src/sap_bridge/sap_workers.py).              *)
(*                                                                         *)
(* Time is counted in half hours.  CURRENT_TIMESTAMP and datetime('now')   *)
(* of the store are UTC (variable now); datetime.now() of the Python side  *)
(* is the local wall clock of the host (now + tz).                         *)
(***************************************************************************)
EXTENDS Integers, Sequences, FiniteSets, TLC

\* ------------------------------------------------------------------ bounds
MaxMsgs == 2
NumWorkers == 2
MaxTicks == 1
LeaseMsgs == 3
MaxRestarts == 2
MaxLen == 4
MaxInt == 12
MaxAttempts == 3
MaxMappings == 2
\* items in one fetched collection
MaxItems == 2
\* calls of start and stop on one SAPBridgeManager
MaxCalls == 8

\* ------------------------------------------------------- program constants
\* PersistentBuffer.__init__(ttl_minutes=60), in half hours
TtlUnits == 2
\* _cleanup: datetime('now', '-1 day'), in half hours
DayUnits == 48
\* _cleanup: datetime('now', '-7 days'), in half hours
WeekUnits == 336
\* _handle_buffer_overflow: LIMIT 100 of both DELETE statements
OverflowDeleteLimit == 100
\* _handle_buffer_overflow: if cursor.rowcount < 50
OverflowCompletedMin == 50
\* BufferedMessage.max_retries default
DefaultMaxRetries == 3
\* MessagePriority
LOW == 0
NORMAL == 1
HIGH == 2
CRITICAL == 3
\* limit=10 of the worker loops
WorkerBatch == 10
\* SAPRetryConfig.max_attempts default
DefaultMaxAttempts == 3

\* MessageStatus
PENDING == "pending"
PROCESSING == "processing"
COMPLETED == "completed"
FAILED == "failed"
EXPIRED == "expired"

\* SQL NULL / Python None for an optional column; a present value v is <<v>>
Null == <<>>
Some(v) == <<v>>

\* ------------------------------------------------------------ environment
\* UTC offsets of the hosts (in half hours): UTC-2 and UTC
TzOffsets == {-4, 0}
\* clock steps: half an hour, a week
Jumps == {1, WeekUnits}
\* capacity the buffer is constructed with (max_size argument)
MaxSize == 1

Workers == 1..NumWorkers
Ids == 1..MaxMsgs

VARIABLES
    tz,               \* UTC offset of the host's local clock
    now,              \* UTC clock
    nticks,           \* number of clock steps taken (bounds the model)
    messages,         \* table messages: id -> row
    lastId,           \* AUTOINCREMENT sequence of table messages
    failed_messages,  \* table failed_messages, in insertion order
    stats,            \* PersistentBuffer.stats
    held,             \* per worker: the leased messages still to be handled
    hist,             \* history per message id (ghost)
    running,          \* MQTTOPCUABridge.running
    pc,               \* position of the bridge's _process_messages task
    restarts,         \* number of starts of the bridge process (bounds the model)
    abandoned,        \* messages a dead or stopped worker left leased (ghost)
    payload,          \* a value on its way through the value column
    mappings,         \* BridgeConfig.mappings
    ingress,          \* the adapter callback in progress
    sap_running,      \* SAPBridgeManager._running
    sap_pc,           \* position of the _process_buffer_to_sap task
    push,             \* the SAPConnector.push call in progress
    poll,             \* position of the _poll_sap_to_buffer task
    config,           \* the configuration file and what load_config made of it
    fetch,            \* the SAPConnector.fetch call in progress
    manager           \* SAPBridgeManager: _tasks, the tasks alive, the calls made

\* state of the bridge process
bridge == <<running, pc, restarts, abandoned>>

\* the configuration, the adapters and the SAP side
ext == <<mappings, ingress, sap_running, sap_pc, push, poll, config, fetch, manager>>

vars == <<tz, now, nticks, messages, lastId, failed_messages,
          stats, held, hist, running, pc, restarts, abandoned, payload, ext>>

Terminal == {COMPLETED, FAILED, EXPIRED}

Min(a, b) == IF a < b THEN a ELSE b

\* datetime.now(): naive local time of the host
LocalNow == now + tz

RowIds == DOMAIN messages

\* rows of the dead-letter table written for message id
DeadLetters(id) == {i \in 1..Len(failed_messages) : failed_messages[i].original_id = id}

CountStatus(s) == Cardinality({id \in RowIds : messages[id].status = s})

\* handed: the workers a lease returned the message to since it last became
\* pending; completedOnce: mark_completed has updated the row
NoHist == [handed |-> {}, completedOnce |-> FALSE]

\* positions of the worker loop: the phase and the destination of the batch
Down == <<"down", "">>
Idle == <<"idle", "">>
LeaseMqtt == <<"lease", "mqtt">>
Await(dst) == <<"await", dst>>
Returned(dst) == <<"returned", dst>>
Raised(dst) == <<"raised", dst>>
Break(dst) == <<"break", dst>>

\* no adapter callback is in progress
NoCall == [stage |-> "idle"]

\* no push call is in progress
NoPush == [stage |-> "idle"]

\* the poll task does not exist
PollDown == [pc |-> "down"]

\* no configuration file is being loaded, no fetch call is in progress
NoConfig == [result |-> "idle"]
NoFetch == [stage |-> "idle"]

\* no SAPBridgeManager is looked at
NoManager == [stage |-> "none"]

\* the parts of the program a specification does not run
ExtIdle ==
    /\ mappings = <<>>
    /\ ingress = NoCall
    /\ sap_running = FALSE
    /\ sap_pc = "down"
    /\ push = NoPush
    /\ poll = PollDown
    /\ config = NoConfig
    /\ fetch = NoFetch
    /\ manager = NoManager

\* ------------------------------------------------------------------ Init
Init ==
    /\ tz \in TzOffsets
    /\ now = 0
    /\ nticks = 0
    /\ messages = <<>>
    /\ lastId = 0
    /\ failed_messages = <<>>
    /\ stats = [messages_added |-> 0, messages_processed |-> 0,
                messages_failed |-> 0, messages_expired |-> 0]
    /\ held = [w \in Workers |-> <<>>]
    /\ hist = [id \in Ids |-> NoHist]
    /\ running = FALSE
    /\ pc = Down
    /\ restarts = 0
    /\ abandoned = <<>>
    /\ payload = Null
    /\ ExtIdle

\* ----------------------------------------------------------- time passes
Tick(d) ==
    /\ nticks < MaxTicks
    /\ now' = now + d
    /\ nticks' = nticks + 1
    /\ UNCHANGED <<tz, messages, lastId, failed_messages, stats, held, hist>>

\* ------------------------------------------------------ add_message
\* rows counted by get_pending_count: status pending or processing
get_pending_count == Cardinality({id \in RowIds : messages[id].status \in {PENDING, PROCESSING}})

\* sets of at most n rows of S that an "ORDER BY processed_at ASC LIMIT n"
\* can select (SQLite sorts NULL first; ties are settled by the engine)
OldestProcessed(S, n) ==
    LET key(id) == IF messages[id].processed_at = Null THEN -1
                   ELSE messages[id].processed_at[1]
    IN  {D \in SUBSET S :
            /\ Cardinality(D) = Min(n, Cardinality(S))
            /\ \A d \in D, s \in S \ D : key(d) <= key(s)}

\* sets of at most n rows of S that a "LIMIT n" without ORDER BY can select
AnyLimited(S, n) == {D \in SUBSET S : Cardinality(D) = Min(n, Cardinality(S))}

\* the row sets _handle_buffer_overflow can delete.  DELETE ... LIMIT is a
\* compile-time option of SQLite: where the engine lacks it the second
\* statement raises, the error is logged and only the first DELETE is kept
OverflowDeletions ==
    LET completed == {id \in RowIds : messages[id].status = COMPLETED}
        first == OldestProcessed(completed, OverflowDeleteLimit)
    IN  {D \in SUBSET RowIds :
           \E D1 \in first, delete_limit \in BOOLEAN :
              IF Cardinality(D1) < OverflowCompletedMin /\ delete_limit
              THEN \E D2 \in AnyLimited({id \in RowIds \ D1 : messages[id].expire_at < now},
                                        OverflowDeleteLimit) : D = D1 \cup D2
              ELSE D = D1}

\* the row INSERTed for the caller's message
NewRow(msg) ==
    LET created == IF msg.created_at = Null THEN LocalNow ELSE msg.created_at[1]
        expire  == IF msg.expire_at = Null THEN LocalNow + TtlUnits ELSE msg.expire_at[1]
    IN  [source |-> msg.source, destination |-> msg.destination,
         topic_or_node |-> msg.topic_or_node, mapping_id |-> msg.mapping_id,
         metadata |-> msg.metadata,
         status |-> msg.status, priority |-> msg.priority,
         retry_count |-> msg.retry_count, max_retries |-> msg.max_retries,
         created_at |-> created, processed_at |-> Null, expire_at |-> expire,
         error_message |-> Null]

\* BufferedMessage(source, destination, priority) as the adapters build it;
\* metadata is the set of its keys
BufferedMessage(src, dst, prio) ==
    [source |-> src, destination |-> dst, topic_or_node |-> "", mapping_id |-> Null,
     metadata |-> {"mapping"}, status |-> PENDING, priority |-> prio,
     retry_count |-> 0, max_retries |-> DefaultMaxRetries,
     created_at |-> Null, expire_at |-> Null]

add_message(msg) ==
    /\ lastId < MaxMsgs
    /\ \E D \in (IF get_pending_count >= MaxSize THEN OverflowDeletions ELSE {{}}) :
         messages' = [id \in (RowIds \ D) \cup {lastId + 1} |->
                        IF id = lastId + 1 THEN NewRow(msg) ELSE messages[id]]
    /\ lastId' = lastId + 1
    /\ stats' = [stats EXCEPT !.messages_added = @ + 1]
    /\ UNCHANGED <<tz, now, nticks, failed_messages, held, hist>>

\* ------------------------------------- get_pending_messages / get_next_message
\* WHERE clause of the lease query; an empty filter string is "no filter"
Eligible(src, dst) ==
    {id \in RowIds :
        /\ messages[id].status = PENDING
        /\ messages[id].expire_at > now
        /\ messages[id].retry_count < messages[id].max_retries
        /\ (src # "" => messages[id].source = src)
        /\ (dst # "" => messages[id].destination = dst)}

\* mutant: priority ascending
BeforeAscending(a, b) ==
    \/ messages[a].priority < messages[b].priority
    \/ /\ messages[a].priority = messages[b].priority
       /\ messages[a].created_at < messages[b].created_at

\* mutant: the newest row of a priority first
BeforeNewestFirst(a, b) ==
    \/ messages[a].priority > messages[b].priority
    \/ /\ messages[a].priority = messages[b].priority
       /\ messages[a].created_at > messages[b].created_at

\* ORDER BY priority DESC, created_at ASC: row a sorts strictly before row b
Before(a, b) ==
    \/ messages[a].priority > messages[b].priority
    \/ /\ messages[a].priority = messages[b].priority
       /\ messages[a].created_at < messages[b].created_at

\* the orders in which the engine can return the rows of S (rows with equal
\* keys come in an order the query does not fix)
RECURSIVE Ordered(_)
Ordered(S) ==
    IF S = {} THEN {<<>>}
    ELSE UNION {{<<x>> \o s : s \in Ordered(S \ {x})} :
                 x \in {y \in S : \A z \in S : ~Before(z, y)}}

\* LIMIT n (a negative n is no limit in SQLite)
Limited(s, n) == IF n < 0 THEN s ELSE SubSeq(s, 1, Min(n, Len(s)))

\* the id lists a lease query can return
LeaseResults(limit, src, dst) == {Limited(s, limit) : s \in Ordered(Eligible(src, dst))}

Range(s) == {s[i] : i \in 1..Len(s)}

\* mutant: the lease returns the rows without marking them processing
MarkProcessingSkipped(ids) == messages

\* UPDATE messages SET status = 'processing' WHERE id IN (ids)
MarkProcessing(ids) ==
    [id \in RowIds |-> IF id \in ids THEN [messages[id] EXCEPT !.status = PROCESSING]
                       ELSE messages[id]]

Lease(w, limit, src, dst) ==
    /\ held[w] = <<>>
    /\ \E res \in LeaseResults(limit, src, dst) :
         /\ messages' = MarkProcessing(Range(res))
         /\ held' = [held EXCEPT ![w] = res]
         /\ hist' = [id \in Ids |-> IF id \in Range(res)
                                    THEN [hist[id] EXCEPT !.handed = @ \cup {w}]
                                    ELSE hist[id]]
    /\ UNCHANGED <<tz, now, nticks, lastId, failed_messages, stats>>

get_pending_messages(w, limit, src, dst) == Lease(w, limit, src, dst)

get_next_message(w, src, dst) == Lease(w, 1, src, dst)

\* --------------------------------------------------------- mark_completed
\* what mark_completed(id) and mark_failed(id) return: cursor.rowcount > 0
\* of the UPDATE, and False after "if not row"
MarkReturns(id) == id \in RowIds

\* mutant: the counter is raised whether or not a row was updated
mark_completed_counting(w) ==
    /\ held[w] # <<>>
    /\ LET id == Head(held[w]) IN
         /\ IF id \in RowIds
            THEN /\ messages' = [messages EXCEPT ![id].status = COMPLETED,
                                                 ![id].processed_at = Some(now)]
                 /\ hist' = [hist EXCEPT ![id].completedOnce = TRUE]
            ELSE UNCHANGED <<messages, hist>>
         /\ stats' = [stats EXCEPT !.messages_processed = @ + 1]
    /\ held' = [held EXCEPT ![w] = Tail(@)]
    /\ UNCHANGED <<tz, now, nticks, lastId, failed_messages>>

\* UPDATE messages SET status = 'completed', processed_at = CURRENT_TIMESTAMP
\* WHERE id = ?, for the message at the head of the worker's batch
mark_completed(w) ==
    /\ held[w] # <<>>
    /\ LET id == Head(held[w]) IN
         /\ IF id \in RowIds
            THEN /\ messages' = [messages EXCEPT ![id].status = COMPLETED,
                                                 ![id].processed_at = Some(now)]
                 /\ stats' = [stats EXCEPT !.messages_processed = @ + 1]
                 /\ hist' = [hist EXCEPT ![id].completedOnce = TRUE]
            ELSE UNCHANGED <<messages, stats, hist>>
    /\ held' = [held EXCEPT ![w] = Tail(@)]
    /\ UNCHANGED <<tz, now, nticks, lastId, failed_messages>>

\* ------------------------------------------------------------ mark_failed
\* mutant: one retry too many (> instead of >=)
RetriesExhaustedLate(retry_count, max_retries) == retry_count > max_retries

\* if retry_count >= row['max_retries']
RetriesExhausted(retry_count, max_retries) == retry_count >= max_retries

\* mutant: the dead-letter row keeps the retry count read from the row
DeadLetterRowStale(id, retry_count) == [original_id |-> id, retry_count |-> retry_count - 1]

\* the row INSERTed INTO failed_messages
DeadLetterRow(id, retry_count) == [original_id |-> id, retry_count |-> retry_count]

mark_failed(w) ==
    /\ held[w] # <<>>
    /\ LET id == Head(held[w]) IN
         /\ IF id \in RowIds
            THEN LET retry_count == messages[id].retry_count + 1
                     exhausted == RetriesExhausted(retry_count, messages[id].max_retries)
                     status == IF exhausted THEN FAILED ELSE PENDING
                 IN  /\ failed_messages' =
                          IF exhausted
                          THEN Append(failed_messages, DeadLetterRow(id, retry_count))
                          ELSE failed_messages
                     /\ stats' = IF exhausted
                                 THEN [stats EXCEPT !.messages_failed = @ + 1]
                                 ELSE stats
                     /\ messages' = [messages EXCEPT ![id].status = status,
                                                     ![id].retry_count = retry_count,
                                                     ![id].error_message = Some("error")]
                     /\ hist' = [hist EXCEPT ![id].handed = IF status = PENDING THEN {} ELSE @]
            ELSE UNCHANGED <<messages, stats, hist, failed_messages>>
    /\ held' = [held EXCEPT ![w] = Tail(@)]
    /\ UNCHANGED <<tz, now, nticks, lastId>>

\* --------------------------------------------------------------- _cleanup
\* rows the sweep marks expired
Expiring == {id \in RowIds : /\ messages[id].expire_at < now
                             /\ messages[id].status \in {PENDING, PROCESSING}}

\* rows the sweep deletes, given the table after its UPDATE
Swept(table) ==
    {id \in DOMAIN table :
        \/ /\ table[id].status = COMPLETED
           /\ table[id].processed_at # Null
           /\ table[id].processed_at[1] < now - DayUnits
        \/ /\ table[id].status = EXPIRED
           /\ table[id].expire_at < now - WeekUnits}

cleanup ==
    /\ LET marked == [id \in RowIds |-> IF id \in Expiring
                                        THEN [messages[id] EXCEPT !.status = EXPIRED]
                                        ELSE messages[id]]
       IN  messages' = [id \in RowIds \ Swept(marked) |-> marked[id]]
    /\ stats' = [stats EXCEPT !.messages_expired = @ + Cardinality(Expiring)]
    /\ UNCHANGED <<tz, now, nticks, lastId, failed_messages, held, hist>>

\* ---------------------------------------------- reset_processing_messages
\* mutant: the reset also revives dead-lettered rows
ResetRowsAlsoFailed == {id \in RowIds : messages[id].status \in {PROCESSING, FAILED}}

\* WHERE status = 'processing'
ResetRows == {id \in RowIds : messages[id].status = PROCESSING}

\* mutant: the reset counts as a failed attempt
reset_processing_messages_counting ==
    /\ messages' = [id \in RowIds |-> IF id \in ResetRows
                                      THEN [messages[id] EXCEPT !.status = PENDING,
                                                                !.retry_count = @ + 1]
                                      ELSE messages[id]]
    /\ hist' = [id \in Ids |-> IF id \in ResetRows
                               THEN [hist[id] EXCEPT !.handed = {}]
                               ELSE hist[id]]
    /\ UNCHANGED <<tz, now, nticks, lastId, failed_messages, stats, held>>

\* UPDATE messages SET status = 'pending' WHERE status = 'processing'
reset_processing_messages ==
    /\ messages' = [id \in RowIds |-> IF id \in ResetRows
                                      THEN [messages[id] EXCEPT !.status = PENDING]
                                      ELSE messages[id]]
    /\ hist' = [id \in Ids |-> IF id \in ResetRows
                               THEN [hist[id] EXCEPT !.handed = {}]
                               ELSE hist[id]]
    /\ UNCHANGED <<tz, now, nticks, lastId, failed_messages, stats, held>>

\* ------------------------------------------------------------------- Spec
\* the routes of the bridge
Routes == {<<"mqtt", "opcua">>}
\* destination filters of the worker loops
Filters == {"opcua"}
\* priorities the adapters enqueue with
Priorities == {NORMAL}

\* the callers of the buffer leave the rest of the state alone
Callers == UNCHANGED <<bridge, payload, ext>>

\* the buffer's callers as the store sees them: any interleaving of the calls
Next ==
    \/ \E d \in Jumps : Tick(d) /\ Callers
    \/ \E r \in Routes, p \in Priorities :
          add_message(BufferedMessage(r[1], r[2], p)) /\ Callers
    \/ \E w \in Workers, dst \in Filters :
          get_pending_messages(w, WorkerBatch, "", dst) /\ Callers
    \/ \E w \in Workers, dst \in Filters : get_next_message(w, "", dst) /\ Callers
    \/ \E w \in Workers : mark_completed(w) /\ Callers
    \/ \E w \in Workers : mark_failed(w) /\ Callers
    \/ cleanup /\ Callers
    \/ reset_processing_messages /\ Callers

Spec == Init /\ [][Next]_vars

\* -------------------------------------------------------------- SpecLease
\* Leases from a store left by earlier runs: LeaseMsgs rows, half an hour
\* after the TTL of a row created at time 0 has run out.
LeaseNow == TtlUnits + 1

\* a pending row of the mqtt -> opcua route, created at time c (UTC) and
\* stamped with the local clock of the host
LeaseRow(c, prio) ==
    [source |-> "mqtt", destination |-> "opcua", topic_or_node |-> "",
     mapping_id |-> Null, metadata |-> {"mapping"}, status |-> PENDING,
     priority |-> prio, retry_count |-> 0, max_retries |-> DefaultMaxRetries,
     created_at |-> c + tz, processed_at |-> Null, expire_at |-> c + tz + TtlUnits,
     error_message |-> Null]

\* the rows the store can hold: live pending rows of each priority, and rows
\* a lease must skip (leased, completed, past expire_at, of another route)
LeaseRows ==
    {LeaseRow(c, p) : c \in {2, 3}, p \in {LOW, NORMAL, CRITICAL}}
    \cup {[LeaseRow(2, NORMAL) EXCEPT !.status = PROCESSING],
          [LeaseRow(2, NORMAL) EXCEPT !.status = COMPLETED, !.processed_at = Some(2)],
          LeaseRow(0, NORMAL),
          [LeaseRow(2, NORMAL) EXCEPT !.source = "opcua", !.destination = "mqtt"]}

LeaseLimits == {1, 2, WorkerBatch}
SourceFilters == {"", "mqtt"}
DestFilters == {"", "opcua"}

InitLease ==
    /\ tz \in TzOffsets
    /\ now = LeaseNow
    /\ nticks = 0
    /\ messages \in [1..LeaseMsgs -> LeaseRows]
    /\ \A i, j \in 1..LeaseMsgs : i < j => messages[i].created_at <= messages[j].created_at
    /\ lastId = LeaseMsgs
    /\ failed_messages = <<>>
    /\ stats = [messages_added |-> 0, messages_processed |-> 0,
                messages_failed |-> 0, messages_expired |-> 0]
    /\ held = [w \in Workers |-> <<>>]
    /\ hist = [id \in Ids |-> NoHist]
    /\ running = FALSE
    /\ pc = Down
    /\ restarts = 0
    /\ abandoned = <<>>
    /\ payload = Null
    /\ ExtIdle

NextLease ==
    \E w \in Workers, n \in LeaseLimits, src \in SourceFilters, dst \in DestFilters :
        get_pending_messages(w, n, src, dst) /\ Callers

SpecLease == InitLease /\ [][NextLease]_vars

\* ------------------------------------------------------------- SpecBridge
\* The bridge process: start, the _process_messages task, stop, and the end of
\* the process (it exits after stop, or it is killed).  The task leases with
\* worker slot BridgeTask.
BridgeTask == 1

\* stats of a PersistentBuffer that was just constructed
NoStats == [messages_added |-> 0, messages_processed |-> 0,
            messages_failed |-> 0, messages_expired |-> 0]

Done == <<"done", "">>

\* where the loop goes after the batch for dst: _process_mqtt_messages follows
\* the opcua batch, the next round of the while loop follows the mqtt batch
AfterBatch(dst) == IF dst = "opcua" THEN LeaseMqtt ELSE Idle

\* the position after a lease or a mark, given the rest of the batch
NextMessage(dst, rest) ==
    IF rest = <<>> THEN AfterBatch(dst)
    ELSE IF running THEN Await(dst)
    ELSE Break(dst)

\* ghost: the messages of batch that are left leased (by: the loop's break or
\* the exit of the process); reset: a start has run since; again: a lease has
\* returned the message since.  The first message of batch is at
\* phase, the others are queued behind it
Leave(batch, by, phase) ==
    [id \in DOMAIN abandoned \cup (Range(batch) \cap RowIds) |->
        IF id \in Range(batch) \cap RowIds
        THEN [by |-> by, phase |-> IF id = Head(batch) THEN phase ELSE "queued",
              expire_at |-> messages[id].expire_at, reset |-> FALSE, again |-> FALSE]
        ELSE abandoned[id]]

\* mutant: a start that does not reset the leased rows
startWithoutReset ==
    /\ pc = Down
    /\ restarts < MaxRestarts
    /\ running' = TRUE
    /\ pc' = Idle
    /\ restarts' = restarts + 1
    /\ abandoned' = [id \in DOMAIN abandoned |-> [abandoned[id] EXCEPT !.reset = TRUE]]
    /\ UNCHANGED <<tz, now, nticks, messages, lastId, failed_messages, stats,
                   held, hist, payload, ext>>

\* MQTTOPCUABridge.start: running = True, reset_processing_messages, create
\* the task
start ==
    /\ pc = Down
    /\ restarts < MaxRestarts
    /\ running' = TRUE
    /\ reset_processing_messages
    /\ pc' = Idle
    /\ restarts' = restarts + 1
    /\ abandoned' = [id \in DOMAIN abandoned |-> [abandoned[id] EXCEPT !.reset = TRUE]]
    /\ UNCHANGED <<payload, ext>>

\* MQTTOPCUABridge.stop runs while the task is suspended in an await (the
\* handler of a message, or a sleep)
stop ==
    /\ running
    /\ pc[1] \in {"idle", "await"}
    /\ running' = FALSE
    /\ UNCHANGED <<tz, now, nticks, messages, lastId, failed_messages, stats,
                   held, hist, pc, restarts, abandoned, payload, ext>>

\* the process ends (killed, or asyncio.run returns after stop): its tasks and
\* the in-memory state of the PersistentBuffer are gone
terminate ==
    /\ pc # Down
    /\ running' = FALSE
    /\ pc' = Down
    /\ held' = [held EXCEPT ![BridgeTask] = <<>>]
    /\ stats' = NoStats
    /\ abandoned' = Leave(held[BridgeTask], "exit", pc[1])
    /\ UNCHANGED <<tz, now, nticks, messages, lastId, failed_messages, hist,
                   restarts, payload, ext>>

\* while self.running: messages = get_pending_messages(limit=10,
\* destination='opcua'), and the lease of _process_mqtt_messages
BridgeLease(dst) ==
    /\ pc = (IF dst = "opcua" THEN Idle ELSE LeaseMqtt)
    /\ dst = "opcua" => running
    /\ get_pending_messages(BridgeTask, WorkerBatch, "", dst)
    /\ pc' = NextMessage(dst, held'[BridgeTask])
    /\ abandoned' = [id \in DOMAIN abandoned |->
                        IF id \in Range(held'[BridgeTask])
                        THEN [abandoned[id] EXCEPT !.again = TRUE]
                        ELSE abandoned[id]]
    /\ UNCHANGED <<running, restarts, payload, ext>>

\* while self.running is false: the loop ends
BridgeExitLoop ==
    /\ pc = Idle
    /\ ~running
    /\ pc' = Done
    /\ UNCHANGED <<tz, now, nticks, messages, lastId, failed_messages, stats,
                   held, hist, running, restarts, abandoned, payload, ext>>

\* mapping_data = message.metadata.get('mapping'): the handler raises
\* ValueError without it (the metadata of a row that was deleted under the
\* worker is known to the worker only)
HasMapping(id) == id \in RowIds => "mapping" \in messages[id].metadata

\* await self._handle_..._message(message) returns, or raises (no mapping in
\* the metadata, or the adapter failed)
BridgeHandled(dst) ==
    /\ pc = Await(dst)
    /\ pc' \in (IF HasMapping(Head(held[BridgeTask]))
                THEN {Returned(dst), Raised(dst)} ELSE {Raised(dst)})
    /\ UNCHANGED <<tz, now, nticks, messages, lastId, failed_messages, stats,
                   held, hist, running, restarts, abandoned, payload, ext>>

\* mutant: the exception of a handler ends the loop after mark_failed
BridgeMarkFatal(dst) ==
    /\ \/ pc = Returned(dst) /\ mark_completed(BridgeTask)
       \/ pc = Raised(dst) /\ mark_failed(BridgeTask)
    /\ pc' = IF pc = Raised(dst) THEN Done ELSE NextMessage(dst, held'[BridgeTask])
    /\ UNCHANGED <<running, restarts, abandoned, payload, ext>>

\* mark_completed after the handler returned, mark_failed in the except
\* clause; then the next message of the batch
BridgeMark(dst) ==
    /\ \/ pc = Returned(dst) /\ mark_completed(BridgeTask)
       \/ pc = Raised(dst) /\ mark_failed(BridgeTask)
    /\ pc' = NextMessage(dst, held'[BridgeTask])
    /\ UNCHANGED <<running, restarts, abandoned, payload, ext>>

\* mutant: the break hands the rest of the batch back to pending
BridgeBreakReleasing(dst) ==
    /\ pc = Break(dst)
    /\ held' = [held EXCEPT ![BridgeTask] = <<>>]
    /\ messages' = [id \in RowIds |->
                       IF id \in Range(held[BridgeTask])
                       THEN [messages[id] EXCEPT !.status = PENDING]
                       ELSE messages[id]]
    /\ abandoned' = Leave(held[BridgeTask], "break", "queued")
    /\ pc' = AfterBatch(dst)
    /\ UNCHANGED <<tz, now, nticks, lastId, failed_messages, stats,
                   hist, running, restarts, payload, ext>>

\* if not self.running: break
BridgeBreak(dst) ==
    /\ pc = Break(dst)
    /\ held' = [held EXCEPT ![BridgeTask] = <<>>]
    /\ abandoned' = Leave(held[BridgeTask], "break", "queued")
    /\ pc' = AfterBatch(dst)
    /\ UNCHANGED <<tz, now, nticks, messages, lastId, failed_messages, stats,
                   hist, running, restarts, payload, ext>>

\* both directions of the bridge
BridgeRoutes == {<<"mqtt", "opcua">>, <<"opcua", "mqtt">>}
Destinations == {"opcua", "mqtt"}

NextBridge ==
    \/ \E d \in Jumps : Tick(d) /\ Callers
    \/ \E r \in BridgeRoutes :
          pc # Down /\ add_message(BufferedMessage(r[1], r[2], NORMAL)) /\ Callers
    \/ pc # Down /\ cleanup /\ Callers
    \/ start
    \/ stop
    \/ terminate
    \/ \E dst \in Destinations : BridgeLease(dst)
    \/ BridgeExitLoop
    \/ \E dst \in Destinations : BridgeHandled(dst)
    \/ \E dst \in Destinations : BridgeMark(dst)
    \/ \E dst \in Destinations : BridgeBreak(dst)

SpecBridge == Init /\ [][NextBridge]_vars

\* the steps of the _process_messages task; the event loop keeps running it
BridgeTaskStep ==
    \/ \E dst \in Destinations : BridgeLease(dst)
    \/ \E dst \in Destinations : BridgeHandled(dst)
    \/ \E dst \in Destinations : BridgeMark(dst)
    \/ \E dst \in Destinations : BridgeBreak(dst)

SpecBridgeFair == SpecBridge /\ WF_vars(BridgeTaskStep)

\* -------------------------------------------------------------- SpecValue
\* The value column.  A text is a sequence of characters; a Python value is a
\* str, an int, a bool or None.
PyStr(t) == [type |-> "str", text |-> t]
PyInt(n) == [type |-> "int", int |-> n]
PyBool(b) == [type |-> "bool", bool |-> b]
PyNone == [type |-> "NoneType"]
PyDict(keys, values) == [type |-> "dict", keys |-> keys, values |-> values]

DigitChars == <<"0", "1", "2", "3", "4", "5", "6", "7", "8", "9">>

\* str(n) for n >= 0
RECURSIVE IntText(_)
IntText(n) ==
    IF n < 10 THEN <<DigitChars[n + 1]>>
    ELSE IntText(n \div 10) \o <<DigitChars[(n % 10) + 1]>>

\* json.dumps of an int, a bool or None
json_dumps(v) ==
    CASE v.type = "int" -> IF v.int < 0 THEN <<"-">> \o IntText(0 - v.int) ELSE IntText(v.int)
      [] v.type = "bool" -> IF v.bool THEN <<"t", "r", "u", "e">>
                            ELSE <<"f", "a", "l", "s", "e">>
      [] v.type = "NoneType" -> <<"n", "u", "l", "l">>

\* value_json = json.dumps(message.value) if not isinstance(message.value,
\* str) else message.value
value_json(v) == IF v.type = "str" THEN v.text ELSE json_dumps(v)

IsDigit(c) == \E i \in 1..Len(DigitChars) : DigitChars[i] = c

DigitValue(c) == (CHOOSE i \in 1..Len(DigitChars) : DigitChars[i] = c) - 1

RECURSIVE DigitsValue(_)
DigitsValue(t) ==
    IF t = <<>> THEN 0
    ELSE 10 * DigitsValue(SubSeq(t, 1, Len(t) - 1)) + DigitValue(t[Len(t)])

\* the JSON grammar of an integer: -? (0 | [1-9][0-9]*)
IsJsonInt(t) ==
    LET body == IF t # <<>> /\ Head(t) = "-" THEN Tail(t) ELSE t
    IN  /\ body # <<>>
        /\ \A i \in 1..Len(body) : IsDigit(body[i])
        /\ (Len(body) = 1 \/ body[1] # "0")

\* a JSON string without escapes
IsJsonString(t) ==
    /\ Len(t) >= 2
    /\ t[1] = "\"" /\ t[Len(t)] = "\""
    /\ \A i \in 2..(Len(t) - 1) : t[i] \notin {"\"", "\\"}

\* json.loads of a text of digits, letters and quotes: the value, or
\* JSONDecodeError
json_loads(t) ==
    CASE t = <<"t", "r", "u", "e">> -> [ok |-> TRUE, value |-> PyBool(TRUE)]
      [] t = <<"f", "a", "l", "s", "e">> -> [ok |-> TRUE, value |-> PyBool(FALSE)]
      [] t = <<"n", "u", "l", "l">> -> [ok |-> TRUE, value |-> PyNone]
      [] IsJsonInt(t) ->
            [ok |-> TRUE,
             value |-> PyInt(IF Head(t) = "-" THEN 0 - DigitsValue(Tail(t)) ELSE DigitsValue(t))]
      [] IsJsonString(t) -> [ok |-> TRUE, value |-> PyStr(SubSeq(t, 2, Len(t) - 1))]
      [] OTHER -> [ok |-> FALSE]

\* _row_to_message: json.loads(row['value']) if row['value'] else None, and
\* the raw text on JSONDecodeError
row_value(column) ==
    IF column = <<>> THEN PyNone
    ELSE IF json_loads(column).ok THEN json_loads(column).value
    ELSE PyStr(column)

\* the characters of the str values
Chars == {"0", "1", "n", "u", "l", "\""}
Texts == UNION {[1..k -> Chars] : k \in 0..MaxLen}

\* the values a caller enqueues
Values ==
    {PyStr(t) : t \in Texts} \cup {PyInt(n) : n \in (0 - MaxInt)..MaxInt}
    \cup {PyBool(b) : b \in BOOLEAN} \cup {PyNone}

InitValue ==
    /\ tz = 0
    /\ now = 0
    /\ nticks = 0
    /\ messages = <<>>
    /\ lastId = 0
    /\ failed_messages = <<>>
    /\ stats = NoStats
    /\ held = [w \in Workers |-> <<>>]
    /\ hist = [id \in Ids |-> NoHist]
    /\ running = FALSE
    /\ pc = Down
    /\ restarts = 0
    /\ abandoned = <<>>
    /\ payload \in {[stage |-> "caller", value |-> v] : v \in Values}
    /\ ExtIdle

\* add_message writes the value column
StoreValue ==
    /\ payload.stage = "caller"
    /\ payload' = [stage |-> "stored", value |-> payload.value,
                   column |-> value_json(payload.value)]
    /\ UNCHANGED <<tz, now, nticks, messages, lastId, failed_messages, stats,
                   held, hist, running, pc, restarts, abandoned, ext>>

\* a lease returns the row as a BufferedMessage
LoadValue ==
    /\ payload.stage = "stored"
    /\ payload' = [stage |-> "leased", value |-> payload.value,
                   column |-> payload.column, returned |-> row_value(payload.column)]
    /\ UNCHANGED <<tz, now, nticks, messages, lastId, failed_messages, stats,
                   held, hist, running, pc, restarts, abandoned, ext>>

NextValue == StoreValue \/ LoadValue

SpecValue == InitValue /\ [][NextValue]_vars

\* ------------------------------------------------------------ SpecEnqueue
\* add_message called with any BufferedMessage a caller can build: status and
\* priority are plain fields of the dataclass (str and int)
Statuses == {PENDING, PROCESSING, COMPLETED, FAILED, EXPIRED}
CallerPriorities == {-1, LOW, NORMAL, HIGH, CRITICAL, 7}
CallerMessages ==
    {[BufferedMessage("mqtt", "opcua", p) EXCEPT !.status = st] :
        p \in CallerPriorities, st \in Statuses}

NextEnqueue ==
    \/ \E msg \in CallerMessages : add_message(msg) /\ Callers
    \/ \E w \in Workers : get_pending_messages(w, WorkerBatch, "", "opcua") /\ Callers

SpecEnqueue == Init /\ [][NextEnqueue]_vars

\* ---------------------------------------------------------------- SpecPush
\* SAPConnector.push, called with mappings whose retry.max_attempts is 0 to
\* MaxAttempts.  answers: the status codes of the POSTs sent so far in
\* this call (RequestError: the request raised requests.RequestException);
\* result: "none" while the loop runs, then the value returned
RequestError == 0

\* mutant: only 200 counts as success
PushOkOnly200(status) == status = 200

\* if response.status_code in (200, 201, 202)
PushOk(status) == status \in {200, 201, 202}

\* push(payload, mapping) is entered: range(1, max_attempts + 1) is empty for
\* max_attempts < 1
PushCall(max_attempts) ==
    [stage |-> "call", max_attempts |-> max_attempts, answers |-> <<>>,
     result |-> IF max_attempts < 1 THEN "False" ELSE "none"]

\* one round of the for loop: the POST is answered with status (or raises),
\* then return True, or time.sleep(backoff_seconds) and the next round, or
\* return False after the last round
Posted(p, status) ==
    [p EXCEPT !.answers = Append(@, status),
              !.result = IF PushOk(status) THEN "True"
                         ELSE IF Len(p.answers) + 1 >= p.max_attempts THEN "False"
                         ELSE "none"]

\* the answers of the endpoint
Answers == {200, 201, 202, 400, 500, RequestError}

\* the parts of the state push does not touch
PushFrame ==
    UNCHANGED <<tz, now, nticks, messages, lastId, failed_messages, stats, held, hist,
                bridge, payload, mappings, ingress, sap_running, sap_pc, poll, config,
                fetch, manager>>

PushPost(status) ==
    /\ push.stage = "call"
    /\ push.result = "none"
    /\ push' = Posted(push, status)
    /\ PushFrame

InitPush ==
    /\ tz = 0
    /\ now = 0
    /\ nticks = 0
    /\ messages = <<>>
    /\ lastId = 0
    /\ failed_messages = <<>>
    /\ stats = NoStats
    /\ held = [w \in Workers |-> <<>>]
    /\ hist = [id \in Ids |-> NoHist]
    /\ running = FALSE
    /\ pc = Down
    /\ restarts = 0
    /\ abandoned = <<>>
    /\ payload = Null
    /\ mappings = <<>>
    /\ ingress = NoCall
    /\ sap_running = FALSE
    /\ sap_pc = "down"
    /\ push \in {PushCall(m) : m \in 0..MaxAttempts}
    /\ poll = PollDown
    /\ config = NoConfig
    /\ fetch = NoFetch
    /\ manager = NoManager

NextPush == \E status \in Answers : PushPost(status)

SpecPush == InitPush /\ [][NextPush]_vars

\* ----------------------------------------------------------------- SpecSap
\* The standalone SAP sync service (sap_sync.py): main starts the
\* SAPBridgeManager, whose _process_buffer_to_sap task leases with worker slot
\* SapTask; restarts counts the starts of the service.
SapTask == 2

\* messages for destination 'sap', with and without the id of a SAP mapping
\* in their metadata
SapMetadata == {{"sap_mapping_id"}, {}}
SapMessage(meta) == [BufferedMessage("mqtt", "sap", NORMAL) EXCEPT !.metadata = meta]

\* the answers of the endpoint in the runs of the service
SapAnswers == {201, 500}

\* _get_mapping finds the mapping named in the metadata (the metadata of a
\* row that was deleted under the worker is known to the worker only)
SapMappingFound(id) == id \in RowIds => "sap_mapping_id" \in messages[id].metadata
SapMappingMissing(id) == id \in RowIds => "sap_mapping_id" \notin messages[id].metadata

\* the poll task sleeps between two rounds over the mappings
PollSleep == [pc |-> "sleep"]

\* the position after a message of the batch: the for loop has no test of
\* _running and no await
SapNextMessage(rest) == IF rest = <<>> THEN "loop" ELSE "message"

\* what the service leaves alone
SapFrame ==
    UNCHANGED <<running, pc, abandoned, payload, mappings, ingress, config, fetch, manager>>

\* main: PersistentBuffer(...), manager.start()
sap_start ==
    /\ sap_pc = "down"
    /\ restarts < MaxRestarts
    /\ sap_running' = TRUE
    /\ sap_pc' = "loop"
    /\ poll' = PollSleep
    /\ restarts' = restarts + 1
    /\ UNCHANGED <<tz, now, nticks, messages, lastId, failed_messages, stats, held, hist,
                   push>>
    /\ SapFrame

\* manager.stop() after a signal: the task is cancelled in its sleep, then
\* buffer.close() and the process exits
sap_stop ==
    /\ sap_running
    /\ sap_pc = "loop"
    /\ poll.pc # "items"
    /\ sap_running' = FALSE
    /\ sap_pc' = "down"
    /\ push' = NoPush
    /\ poll' = PollDown
    /\ stats' = NoStats
    /\ UNCHANGED <<tz, now, nticks, messages, lastId, failed_messages, held, hist,
                   restarts>>
    /\ SapFrame

\* the process is killed
sap_kill ==
    /\ sap_pc # "down"
    /\ sap_running' = FALSE
    /\ sap_pc' = "down"
    /\ push' = NoPush
    /\ poll' = PollDown
    /\ held' = [held EXCEPT ![SapTask] = <<>>]
    /\ stats' = NoStats
    /\ UNCHANGED <<tz, now, nticks, messages, lastId, failed_messages, hist, restarts>>
    /\ SapFrame

\* messages = self.buffer.get_pending_messages(limit=10, destination="sap");
\* without messages the task sleeps and tests _running again
SapLease ==
    /\ sap_pc = "loop"
    /\ sap_running
    /\ get_pending_messages(SapTask, WorkerBatch, "", "sap")
    /\ sap_pc' = SapNextMessage(held'[SapTask])
    /\ UNCHANGED <<sap_running, push, poll, restarts>>
    /\ SapFrame

\* mapping = self._get_mapping(mapping_id, message): without a mapping
\* mark_failed and the next message, with one connector.push is entered
SapLookup ==
    /\ sap_pc = "message"
    /\ \/ /\ SapMappingMissing(Head(held[SapTask]))
          /\ mark_failed(SapTask)
          /\ sap_pc' = SapNextMessage(held'[SapTask])
          /\ UNCHANGED push
       \/ /\ SapMappingFound(Head(held[SapTask]))
          /\ sap_pc' = "push"
          /\ push' = PushCall(DefaultMaxAttempts)
          /\ UNCHANGED <<tz, now, nticks, messages, lastId, failed_messages, stats,
                         held, hist>>
    /\ UNCHANGED <<sap_running, poll, restarts>>
    /\ SapFrame

\* one round of the loop of connector.push; when push returns, mark_completed
\* (True) or RuntimeError and mark_failed (False), then the next message
SapPost(status) ==
    /\ sap_pc = "push"
    /\ push.result = "none"
    /\ push' = Posted(push, status)
    /\ IF push'.result = "none"
       THEN UNCHANGED <<tz, now, nticks, messages, lastId, failed_messages, stats,
                        held, hist, sap_pc>>
       ELSE /\ IF push'.result = "True" THEN mark_completed(SapTask)
               ELSE mark_failed(SapTask)
            /\ sap_pc' = SapNextMessage(held'[SapTask])
    /\ UNCHANGED <<sap_running, poll, restarts>>
    /\ SapFrame

NextSap ==
    \/ \E d \in Jumps : Tick(d) /\ Callers
    \/ \E meta \in SapMetadata : add_message(SapMessage(meta)) /\ Callers
    \/ sap_pc # "down" /\ cleanup /\ Callers
    \/ sap_start
    \/ sap_stop
    \/ sap_kill
    \/ SapLease
    \/ SapLookup
    \/ \E status \in SapAnswers : SapPost(status)

SpecSap == Init /\ [][NextSap]_vars

\* ------------------------------------------------------------- SpecIngress
\* The ingress callbacks of the adapters: MQTTClient._on_message and
\* OPCUASubscriptionHandler.datachange_notification walk the configured
\* mappings and enqueue a message for each mapping that matches.
Topics == {"plant/temp", "plant/flow"}
Nodes == {"ns=2;i=1", "ns=2;i=2"}
Directions == {"mqtt_to_opcua", "opcua_to_mqtt", "bidirectional"}
PriorityNames == {"normal", "critical"}

\* mutant: the priority of the mapping is not looked at
PriorityValueNormal(name) == NORMAL

\* MessagePriority[name.upper()].value
PriorityValue(name) ==
    CASE name = "low" -> LOW
      [] name = "normal" -> NORMAL
      [] name = "high" -> HIGH
      [] name = "critical" -> CRITICAL

\* BridgeMapping(mqtt_topic, opcua_node_id, direction, priority)
BridgeMappings ==
    [mqtt_topic : Topics, opcua_node_id : Nodes, direction : Directions,
     priority : PriorityNames]

\* the configurations: up to MaxMappings mappings, duplicates included
Configs == UNION {[1..k -> BridgeMappings] : k \in 0..MaxMappings}

\* mapping.mqtt_topic == msg.topic and mapping.direction in ["mqtt_to_opcua",
\* "bidirectional"], and the same test on opcua_node_id for a data change
Matches(adapter, m, address) ==
    IF adapter = "mqtt"
    THEN m.mqtt_topic = address /\ m.direction \in {"mqtt_to_opcua", "bidirectional"}
    ELSE m.opcua_node_id = address /\ m.direction \in {"opcua_to_mqtt", "bidirectional"}

\* the BufferedMessage the callback builds for mapping m
IngressMessage(adapter, m, address) ==
    [BufferedMessage(adapter, IF adapter = "mqtt" THEN "opcua" ELSE "mqtt", NORMAL)
        EXCEPT !.topic_or_node = address,
               !.mapping_id = <<m.mqtt_topic, m.opcua_node_id>>]

\* the values an adapter observes, by their Python type: an MQTT payload is
\* what json.loads returns or the text itself, an OPC-UA value is what the
\* node holds (a datetime for a DateTime node)
ObservedValues(adapter) == IF adapter = "mqtt" THEN {"float"} ELSE {"float", "datetime"}

\* json.dumps(message.value) raises TypeError for a datetime
JsonSerializable(value) == value # "datetime"

\* add_message when the INSERT is not reached: the overflow policy has run,
\* the exception is logged and None is returned
add_message_failed ==
    /\ \E D \in (IF get_pending_count >= MaxSize THEN OverflowDeletions ELSE {{}}) :
         messages' = [id \in RowIds \ D |-> messages[id]]
    /\ UNCHANGED <<tz, now, nticks, lastId, failed_messages, stats, held, hist>>

\* the callback at mapping i; built: the mappings it has enqueued a message
\* for, first: the last id before the callback
IngressAt(adapter, address, value, i, built, first) ==
    [stage |-> IF i > Len(mappings) THEN "done" ELSE "loop", adapter |-> adapter,
     address |-> address, value |-> value, i |-> i, built |-> built, first |-> first]

IngressFrame ==
    UNCHANGED <<bridge, payload, mappings, sap_running, sap_pc, push, poll, config, fetch,
                manager>>

\* a value arrives at address: the callback is entered (the store of the
\* model has room for the messages it will enqueue)
IngressCall(adapter, address, value) ==
    /\ ingress.stage \in {"idle", "done"}
    /\ lastId + Cardinality({i \in 1..Len(mappings) : Matches(adapter, mappings[i], address)})
          <= MaxMsgs
    /\ ingress' = IngressAt(adapter, address, value, 1, <<>>, lastId)
    /\ UNCHANGED <<tz, now, nticks, messages, lastId, failed_messages, stats, held, hist>>
    /\ IngressFrame

_on_message(topic, value) == IngressCall("mqtt", topic, value)

datachange_notification(node_id, val) == IngressCall("opcua", node_id, val)

\* for mapping in mappings: if it matches, build the message and add_message
IngressStep ==
    /\ ingress.stage = "loop"
    /\ LET m == mappings[ingress.i]
           hit == Matches(ingress.adapter, m, ingress.address)
           stored == hit /\ JsonSerializable(ingress.value)
       IN  /\ IF stored
              THEN add_message(IngressMessage(ingress.adapter, m, ingress.address))
              ELSE IF hit THEN add_message_failed
              ELSE UNCHANGED <<tz, now, nticks, messages, lastId, failed_messages, stats,
                               held, hist>>
           /\ ingress' = IngressAt(ingress.adapter, ingress.address, ingress.value,
                                   ingress.i + 1,
                                   IF stored THEN Append(ingress.built, ingress.i)
                                   ELSE ingress.built,
                                   ingress.first)
    /\ IngressFrame

InitIngress ==
    /\ tz \in TzOffsets
    /\ now = 0
    /\ nticks = 0
    /\ messages = <<>>
    /\ lastId = 0
    /\ failed_messages = <<>>
    /\ stats = NoStats
    /\ held = [w \in Workers |-> <<>>]
    /\ hist = [id \in Ids |-> NoHist]
    /\ running = FALSE
    /\ pc = Down
    /\ restarts = 0
    /\ abandoned = <<>>
    /\ payload = Null
    /\ mappings \in Configs
    /\ ingress = NoCall
    /\ sap_running = FALSE
    /\ sap_pc = "down"
    /\ push = NoPush
    /\ poll = PollDown
    /\ config = NoConfig
    /\ fetch = NoFetch
    /\ manager = NoManager

NextIngress ==
    \/ \E topic \in Topics, value \in ObservedValues("mqtt") : _on_message(topic, value)
    \/ \E node_id \in Nodes, val \in ObservedValues("opcua") :
          datachange_notification(node_id, val)
    \/ IngressStep

SpecIngress == InitIngress /\ [][NextIngress]_vars

\* ------------------------------------------------------------- SpecInbound
\* The SAP-to-bridge direction: the _poll_sap_to_buffer task of the sync
\* service enqueues what connector.fetch returned, and the worker of the
\* bridge process (same database) leases it. The destination adapters are
\* connected and accept every write.

\* the items of a fetched collection: a JSON object, or a JSON string
ItemKinds == {PyDict(<<"Order">>, <<PyInt(1)>>), PyStr(<<"1">>)}

\* inbound.transform of a SAP mapping: none, or the example transform of
\* transformers_examples.py, which calls payload.get
InboundTransforms == {"identity", "sap_to_production_order"}

\* the SAP mappings with direction sap_to_bridge
SapInbound ==
    [destination : Destinations, target : {"plant/orders"}, priority : PriorityNames,
     transform : InboundTransforms]

\* _iterate_items(data) for the bodies that hold at least one item
FetchedItems ==
    {items \in UNION {[1..n -> ItemKinds] : n \in 1..MaxItems} : TRUE}

\* transform(payload, mapping) raises AttributeError: a str has no get
TransformRaises(m, item) ==
    m.transform = "sap_to_production_order" /\ item.type # "dict"

\* payload.get(key)
DictGet(d, key) ==
    IF \E i \in DOMAIN d.keys : d.keys[i] = key
    THEN d.values[CHOOSE i \in DOMAIN d.keys : d.keys[i] = key]
    ELSE PyNone

\* the value of the message: the payload itself (_identity_inbound), or what
\* sap_to_production_order makes of an object
InboundValue(m, item) ==
    IF m.transform = "identity" THEN item
    ELSE PyDict(<<"order", "status", "quantity">>,
                <<DictGet(item, "Order"), DictGet(item, "Status"),
                  DictGet(item, "Quantity")>>)

\* a BufferedMessage with its value
WithValue(msg, value) ==
    [k \in DOMAIN msg \cup {"value"} |-> IF k = "value" THEN value ELSE msg[k]]

\* SAPTransformer.sap_to_bridge, and the two keys the poll loop adds
sap_to_bridge(item, m) ==
    WithValue([BufferedMessage("sap", m.destination, PriorityValue(m.priority))
                  EXCEPT !.topic_or_node = m.target,
                         !.mapping_id = <<"sap_mapping_id">>,
                         !.metadata = {"sap_mapping_id", "fetched_at", "origin"}],
              InboundValue(m, item))

\* the task ended with an exception
PollDead == [pc |-> "dead"]

\* data = self.connector.fetch(mapping) for one mapping of the round; with
\* None or an empty collection the round goes on to the sleep
PollFetch(m, items) ==
    /\ sap_running
    /\ poll = PollSleep
    /\ lastId + Len(items) <= MaxMsgs
    /\ poll' = [pc |-> "items", mapping |-> m, items |-> items]
    /\ UNCHANGED <<tz, now, nticks, messages, lastId, failed_messages, stats, held, hist,
                   bridge, payload, mappings, ingress, sap_running, sap_pc, push,
                   config, fetch, manager>>

\* one item of the for loop: sap_to_bridge (no try around it), add_message
PollItem ==
    /\ poll.pc = "items"
    /\ IF TransformRaises(poll.mapping, Head(poll.items))
       THEN /\ poll' = PollDead
            /\ UNCHANGED <<tz, now, nticks, messages, lastId, failed_messages, stats,
                           held, hist>>
       ELSE /\ add_message(sap_to_bridge(Head(poll.items), poll.mapping))
            /\ poll' = IF Tail(poll.items) = <<>> THEN PollSleep
                       ELSE [poll EXCEPT !.items = Tail(@)]
    /\ UNCHANGED <<bridge, payload, mappings, ingress, sap_running, sap_pc, push,
                   config, fetch, manager>>

\* the handler of the bridge with a healthy destination: it raises only
\* before the adapter is called
BridgeDelivered(dst) ==
    /\ BridgeHandled(dst)
    /\ HasMapping(Head(held[BridgeTask])) => pc' = Returned(dst)

NextInbound ==
    \/ \E d \in Jumps : Tick(d) /\ Callers
    \/ sap_start
    \/ sap_stop
    \/ \E m \in SapInbound, items \in FetchedItems : PollFetch(m, items)
    \/ PollItem
    \/ start
    \/ \E dst \in Destinations : BridgeLease(dst)
    \/ \E dst \in Destinations : BridgeDelivered(dst)
    \/ \E dst \in Destinations : BridgeMark(dst)

SpecInbound == Init /\ [][NextInbound]_vars

\* -------------------------------------------------------------- SpecConfig
\* load_config over the configuration files: it returns the BridgeConfig or
\* raises ValueError from one of the two validations.
ValidDataTypes == {"Boolean", "Int32", "Float", "Double", "String", "DateTime", "JSON"}
ValidPriorities == {"low", "normal", "high", "critical"}
ValidSapDirections == {"bridge_to_sap", "sap_to_bridge", "bidirectional"}
ValidDestinations == {"mqtt", "opcua"}

\* the mappings section of a file: the node is the same in every mapping, so
\* two mappings always duplicate a node and sometimes a topic
FileMappings ==
    [mqtt_topic : Topics, opcua_node_id : {"ns=2;i=1"},
     data_type : {"Float", "Bogus"}, direction : {"bidirectional", "sideways"},
     priority : {"normal", "urgent"}]

\* the sap.mappings section of a file (without a mapping, or with one)
SapFileMappings ==
    [direction : {"bridge_to_sap", "sap_to_bridge", "sideways"},
     priority : {"normal", "urgent"}, mqtt_topic : {Null, Some("plant/temp")},
     inbound : [destination : {"mqtt", "sap"}, target : {"", "plant/orders"},
                data_type : {"JSON", "Bogus"}]]

ConfigFiles ==
    [mappings : UNION {[1..k -> FileMappings] : k \in 0..MaxMappings},
     sap : [enabled : BOOLEAN,
            mappings : {<<>>} \cup {<<m>> : m \in SapFileMappings}]]

\* _validate_mappings returns (TRUE) or raises ValueError (FALSE); a
\* duplicate topic or node is logged only
_validate_mappings(ms) ==
    \A i \in DOMAIN ms :
        /\ ms[i].direction \in Directions
        /\ ms[i].data_type \in ValidDataTypes
        /\ ms[i].priority \in ValidPriorities

\* the checks of _validate_sap_config on one mapping
SapMappingValid(m) ==
    /\ m.direction \in ValidSapDirections
    /\ m.inbound.destination \in ValidDestinations
    /\ m.priority \in ValidPriorities
    /\ m.direction \in {"bridge_to_sap", "bidirectional"} => m.mqtt_topic # Null
    /\ m.direction \in {"sap_to_bridge", "bidirectional"} => m.inbound.target # ""

\* _validate_sap_config returns at once when the section is not enabled
_validate_sap_config(sap) ==
    sap.enabled => \A i \in DOMAIN sap.mappings : SapMappingValid(sap.mappings[i])

\* load_config(config_file) for an existing file with known keys
load_config ==
    /\ config.result = "none"
    /\ IF _validate_mappings(config.file.mappings) /\ _validate_sap_config(config.file.sap)
       THEN /\ config' = [config EXCEPT !.result = "loaded"]
            /\ mappings' = config.file.mappings
       ELSE /\ config' = [config EXCEPT !.result = "ValueError"]
            /\ UNCHANGED mappings
    /\ UNCHANGED <<tz, now, nticks, messages, lastId, failed_messages, stats, held, hist,
                   bridge, payload, ingress, sap_running, sap_pc, push, poll, fetch,
                   manager>>

InitConfig ==
    /\ tz = 0
    /\ now = 0
    /\ nticks = 0
    /\ messages = <<>>
    /\ lastId = 0
    /\ failed_messages = <<>>
    /\ stats = NoStats
    /\ held = [w \in Workers |-> <<>>]
    /\ hist = [id \in Ids |-> NoHist]
    /\ running = FALSE
    /\ pc = Down
    /\ restarts = 0
    /\ abandoned = <<>>
    /\ payload = Null
    /\ mappings = <<>>
    /\ ingress = NoCall
    /\ sap_running = FALSE
    /\ sap_pc = "down"
    /\ push = NoPush
    /\ poll = PollDown
    /\ config \in {[file |-> f, result |-> "none"] : f \in ConfigFiles}
    /\ fetch = NoFetch
    /\ manager = NoManager

NextConfig == load_config

SpecConfig == InitConfig /\ [][NextConfig]_vars

\* --------------------------------------------------------------- SpecFetch
\* SAPConnector.fetch: one GET, answered with a status and a body or with
\* requests.RequestException.

\* mutant: a 204 answer is decoded too
FetchOkLike204(status) == status \in {200, 204}

\* if response.status_code == 200
FetchOk(status) == status = 200

\* the body of the test of the connector: {"value": []}
EmptyCollectionText ==
    <<"{", "\"", "v", "a", "l", "u", "e", "\"", ":", " ", "[", "]", "}">>
PyEmptyCollection == [type |-> "dict", keys |-> <<"value">>, items |-> <<>>]

\* response.json()
response_json(body) ==
    IF body = EmptyCollectionText THEN [ok |-> TRUE, value |-> PyEmptyCollection]
    ELSE json_loads(body)

\* the answers of the endpoint to the GET
FetchStatuses == {200, 204, 404, 500}
FetchBodies == Texts \cup {EmptyCollectionText}
FetchAnswers ==
    [status : FetchStatuses, body : FetchBodies] \cup {[status |-> RequestError]}

\* fetch(mapping) returns value
Fetched(value) == [kind |-> "returned", value |-> value]

\* what fetch does with the answer. The JSONDecodeError of response.json()
\* is a requests.RequestException from requests 2.27 on (caught: None) and a
\* plain ValueError before (it leaves fetch); no version is pinned.
FetchResults(answer) ==
    IF answer.status = RequestError THEN {Fetched(PyNone)}
    ELSE IF ~FetchOk(answer.status) THEN {Fetched(PyNone)}
    ELSE IF response_json(answer.body).ok THEN {Fetched(response_json(answer.body).value)}
    ELSE {Fetched(PyNone), [kind |-> "raised"]}

FetchGet ==
    /\ fetch.stage = "call"
    /\ fetch.result = Null
    /\ \E r \in FetchResults(fetch.answer) : fetch' = [fetch EXCEPT !.result = Some(r)]
    /\ UNCHANGED <<tz, now, nticks, messages, lastId, failed_messages, stats, held, hist,
                   bridge, payload, mappings, ingress, sap_running, sap_pc, push, poll,
                   config, manager>>

InitFetch ==
    /\ tz = 0
    /\ now = 0
    /\ nticks = 0
    /\ messages = <<>>
    /\ lastId = 0
    /\ failed_messages = <<>>
    /\ stats = NoStats
    /\ held = [w \in Workers |-> <<>>]
    /\ hist = [id \in Ids |-> NoHist]
    /\ running = FALSE
    /\ pc = Down
    /\ restarts = 0
    /\ abandoned = <<>>
    /\ payload = Null
    /\ mappings = <<>>
    /\ ingress = NoCall
    /\ sap_running = FALSE
    /\ sap_pc = "down"
    /\ push = NoPush
    /\ poll = PollDown
    /\ config = NoConfig
    /\ manager = NoManager
    /\ fetch \in {[stage |-> "call", answer |-> a, result |-> Null] : a \in FetchAnswers}

NextFetch == FetchGet

SpecFetch == InitFetch /\ [][NextFetch]_vars

\* ----------------------------------------------------------- SpecTransform
\* SAPTransformer.sap_to_bridge and SAPTransformer.bridge_to_sap as functions
\* of their arguments; payload holds the call and then what it returned.

\* the payloads and message values: None, booleans, integers, short strings
\* and objects
TransformValues ==
    {v \in Values : v.type = "str" => Len(v.text) <= 1}
    \cup {PyDict(<<>>, <<>>), PyDict(<<"Order">>, <<PyInt(1)>>),
          PyDict(<<"value">>, <<PyInt(1)>>)}

\* the SAP mappings a validated configuration can hold
TransformMappings ==
    [destination : Destinations, target : {"plant/orders", "ns=2;i=1"},
     priority : ValidPriorities, transform : InboundTransforms]

\* mutant: every value is wrapped
_identity_outbound_wrapping(value) == PyDict(<<"value">>, <<value>>)

\* _identity_outbound(value, mapping, message)
_identity_outbound(value) ==
    IF value.type = "dict" THEN value ELSE PyDict(<<"value">>, <<value>>)

\* bridge_to_sap(message, mapping) for a mapping without outbound.transform
bridge_to_sap(message) == _identity_outbound(message.value)

\* buffered = transformer.sap_to_bridge(item, mapping)
SapToBridgeCall ==
    /\ payload.stage = "sap_to_bridge"
    /\ payload' = [stage |-> "sap_to_bridge returned", item |-> payload.item,
                   mapping |-> payload.mapping,
                   result |-> IF TransformRaises(payload.mapping, payload.item)
                              THEN Null
                              ELSE Some(sap_to_bridge(payload.item, payload.mapping))]
    /\ UNCHANGED <<tz, now, nticks, messages, lastId, failed_messages, stats,
                   held, hist, running, pc, restarts, abandoned, ext>>

\* payload = self.transformer.bridge_to_sap(message, mapping)
BridgeToSapCall ==
    /\ payload.stage = "bridge_to_sap"
    /\ payload' = [stage |-> "bridge_to_sap returned", message |-> payload.message,
                   result |-> bridge_to_sap(payload.message)]
    /\ UNCHANGED <<tz, now, nticks, messages, lastId, failed_messages, stats,
                   held, hist, running, pc, restarts, abandoned, ext>>

InitTransform ==
    /\ tz = 0
    /\ now = 0
    /\ nticks = 0
    /\ messages = <<>>
    /\ lastId = 0
    /\ failed_messages = <<>>
    /\ stats = NoStats
    /\ held = [w \in Workers |-> <<>>]
    /\ hist = [id \in Ids |-> NoHist]
    /\ running = FALSE
    /\ pc = Down
    /\ restarts = 0
    /\ abandoned = <<>>
    /\ payload \in
         {[stage |-> "sap_to_bridge", item |-> v, mapping |-> m] :
             v \in TransformValues, m \in TransformMappings}
         \cup {[stage |-> "bridge_to_sap",
                message |-> WithValue(SapMessage({"sap_mapping_id"}), v)] :
                  v \in TransformValues}
    /\ ExtIdle

NextTransform == SapToBridgeCall \/ BridgeToSapCall

SpecTransform == InitTransform /\ [][NextTransform]_vars

\* ------------------------------------------------------------- SpecMonitor
\* The operator's tool buffer_monitor.py on the database of a running
\* system: the command reset.

\* WHERE status = 'processing' AND datetime(created_at, '+5 minutes') <
\* datetime('now'): five minutes are less than one unit of the clock, so a
\* row qualifies when the clock has moved on since its created_at
StuckRows ==
    {id \in RowIds : messages[id].status = PROCESSING /\ messages[id].created_at < now}

\* BufferMonitor.reset_stuck_messages
reset_stuck_messages ==
    /\ messages' = [id \in RowIds |-> IF id \in StuckRows
                                      THEN [messages[id] EXCEPT !.status = PENDING]
                                      ELSE messages[id]]
    /\ hist' = [id \in Ids |-> IF id \in StuckRows
                               THEN [hist[id] EXCEPT !.handed = {}]
                               ELSE hist[id]]
    /\ UNCHANGED <<tz, now, nticks, lastId, failed_messages, stats, held>>

NextMonitor ==
    \/ \E d \in Jumps : Tick(d) /\ Callers
    \/ \E r \in Routes, p \in Priorities :
          add_message(BufferedMessage(r[1], r[2], p)) /\ Callers
    \/ \E w \in Workers, dst \in Filters : get_next_message(w, "", dst) /\ Callers
    \/ \E w \in Workers : mark_completed(w) /\ Callers
    \/ reset_stuck_messages /\ Callers

SpecMonitor == Init /\ [][NextMonitor]_vars

\* ------------------------------------------------------------- SpecManager
\* One SAPBridgeManager and the coroutine that owns it (main of
\* sap_sync.py): it calls start and stop one after the other and awaits each
\* call. tasks is self._tasks, live the tasks that have not ended, cancelled
\* the tasks whose cancel() was called, created the number of create_task
\* calls, calls the number of start and stop calls.
Task(id, name) == [id |-> id, name |-> name]

Manager(enabled) ==
    [stage |-> "idle", enabled |-> enabled, tasks |-> <<>>, live |-> {},
     cancelled |-> {}, created |-> 0, calls |-> 0]

ManagerFrame ==
    UNCHANGED <<tz, now, nticks, messages, lastId, failed_messages, stats, held, hist,
                bridge, payload, mappings, ingress, sap_pc, push, poll, config, fetch>>

\* mutant: start does not look at _running
ManagerStartUnguarded ==
    /\ manager.stage = "idle"
    /\ manager.calls < MaxCalls
    /\ IF ~manager.enabled
       THEN /\ manager' = [manager EXCEPT !.calls = @ + 1]
            /\ UNCHANGED sap_running
       ELSE LET created == {Task(manager.created + 1, "sap-buffer-to-sap"),
                            Task(manager.created + 2, "sap-poll")}
            IN  /\ sap_running' = TRUE
                /\ manager' = [manager EXCEPT
                                  !.calls = @ + 1,
                                  !.created = @ + 2,
                                  !.tasks = <<Task(manager.created + 1, "sap-buffer-to-sap"),
                                              Task(manager.created + 2, "sap-poll")>>,
                                  !.live = @ \cup created]
    /\ ManagerFrame

\* SAPBridgeManager.start
ManagerStart ==
    /\ manager.stage = "idle"
    /\ manager.calls < MaxCalls
    /\ IF ~manager.enabled \/ sap_running
       THEN /\ manager' = [manager EXCEPT !.calls = @ + 1]
            /\ UNCHANGED sap_running
       ELSE LET created == {Task(manager.created + 1, "sap-buffer-to-sap"),
                            Task(manager.created + 2, "sap-poll")}
            IN  /\ sap_running' = TRUE
                /\ manager' = [manager EXCEPT
                                  !.calls = @ + 1,
                                  !.created = @ + 2,
                                  !.tasks = <<Task(manager.created + 1, "sap-buffer-to-sap"),
                                              Task(manager.created + 2, "sap-poll")>>,
                                  !.live = @ \cup created]
    /\ ManagerFrame

\* SAPBridgeManager.stop up to its await: _running = False and task.cancel()
\* for every task of the list
ManagerStop ==
    /\ manager.stage = "idle"
    /\ manager.calls < MaxCalls
    /\ IF ~sap_running
       THEN /\ manager' = [manager EXCEPT !.calls = @ + 1]
            /\ UNCHANGED sap_running
       ELSE /\ sap_running' = FALSE
            /\ manager' = [manager EXCEPT
                              !.calls = @ + 1,
                              !.cancelled = @ \cup Range(manager.tasks),
                              !.stage = IF manager.tasks = <<>> THEN "idle" ELSE "gather"]
    /\ ManagerFrame

\* a cancelled task ends at its await
TaskCancelled ==
    /\ \E t \in manager.live \cap manager.cancelled :
          manager' = [manager EXCEPT !.live = @ \ {t}]
    /\ UNCHANGED sap_running
    /\ ManagerFrame

\* the poll task ends with the exception of an inbound transform
TaskDies ==
    /\ \E t \in manager.live \ manager.cancelled :
          /\ t.name = "sap-poll"
          /\ manager' = [manager EXCEPT !.live = @ \ {t}]
    /\ UNCHANGED sap_running
    /\ ManagerFrame

\* stop after asyncio.gather(*self._tasks, return_exceptions=True) returned:
\* self._tasks.clear()
ManagerStopClear ==
    /\ manager.stage = "gather"
    /\ Range(manager.tasks) \cap manager.live = {}
    /\ manager' = [manager EXCEPT !.tasks = <<>>, !.stage = "idle"]
    /\ UNCHANGED sap_running
    /\ ManagerFrame

InitManager ==
    /\ tz = 0
    /\ now = 0
    /\ nticks = 0
    /\ messages = <<>>
    /\ lastId = 0
    /\ failed_messages = <<>>
    /\ stats = NoStats
    /\ held = [w \in Workers |-> <<>>]
    /\ hist = [id \in Ids |-> NoHist]
    /\ running = FALSE
    /\ pc = Down
    /\ restarts = 0
    /\ abandoned = <<>>
    /\ payload = Null
    /\ mappings = <<>>
    /\ ingress = NoCall
    /\ sap_running = FALSE
    /\ sap_pc = "down"
    /\ push = NoPush
    /\ poll = PollDown
    /\ config = NoConfig
    /\ fetch = NoFetch
    /\ manager \in {Manager(enabled) : enabled \in BOOLEAN}

NextManager ==
    \/ ManagerStart
    \/ ManagerStop
    \/ TaskCancelled
    \/ TaskDies
    \/ ManagerStopClear

SpecManager == InitManager /\ [][NextManager]_vars

\* -------------------------------------------------------------- SpecShared
\* The bridge and the SAP sync service run as two processes on one db file:
\* the bridge's _process_messages task leases with slot BridgeTask, the
\* service's _process_buffer_to_sap task with slot SapTask.  restarts counts
\* the starts of both; stats is not shared by the processes and is left out
\* of what is stated of this specification.
NextShared ==
    \/ \E d \in Jumps : Tick(d) /\ Callers
    \/ \E meta \in SapMetadata : add_message(SapMessage(meta)) /\ Callers
    \/ \E r \in BridgeRoutes :
          pc # Down /\ add_message(BufferedMessage(r[1], r[2], NORMAL)) /\ Callers
    \/ start
    \/ stop
    \/ terminate
    \/ \E dst \in Destinations : BridgeLease(dst)
    \/ BridgeExitLoop
    \/ \E dst \in Destinations : BridgeHandled(dst)
    \/ \E dst \in Destinations : BridgeMark(dst)
    \/ \E dst \in Destinations : BridgeBreak(dst)
    \/ sap_start
    \/ sap_stop
    \/ sap_kill
    \/ SapLease
    \/ SapLookup
    \/ \E status \in SapAnswers : SapPost(status)

SpecShared == Init /\ [][NextShared]_vars

\* =================================================================== claims

\* C1: between two consecutive returns of a message to pending (by mark_failed
\* or reset_processing_messages) the leases hand it to at most one worker,
\* whatever the interleaving of the workers' lease calls.
C1_LeaseIsExclusive == \A id \in Ids : Cardinality(hist[id].handed) <= 1

\* C1 witness: two workers hold the same message (the first lease was reset),
\* and only the second lease counts since the message was last pending.
C1_Witness ==
    \E id \in RowIds, w1, w2 \in Workers :
        /\ w1 # w2
        /\ id \in Range(held[w1]) /\ id \in Range(held[w2])
        /\ messages[id].status = PROCESSING
        /\ hist[id].handed = {w2}

\* the rows the claim calls eligible for a lease with filter (src, dst); now
\* is the clock that stamped expire_at (datetime.now() of the process)
C2_Eligible(src, dst) ==
    {id \in RowIds :
        /\ messages[id].status = "pending"
        /\ messages[id].expire_at > LocalNow
        /\ messages[id].retry_count < messages[id].max_retries
        /\ src \in {"", messages[id].source}
        /\ dst \in {"", messages[id].destination}}

\* row a does not come after row b in (priority descending, created_at ascending)
C2_NotAfter(a, b) ==
    \/ messages[a].priority > messages[b].priority
    \/ /\ messages[a].priority = messages[b].priority
       /\ messages[a].created_at <= messages[b].created_at

\* C2: get_pending_messages(limit = n, source, destination) returns min(n, k)
\* of the k eligible rows, the first ones in the order priority descending,
\* created_at ascending, listed in that order, and sets exactly the returned
\* rows to processing (every other row and column is unchanged).
C2_LeaseBatch ==
    [][\A w \in Workers, n \in LeaseLimits, src \in SourceFilters, dst \in DestFilters :
         get_pending_messages(w, n, src, dst) =>
            LET res == held'[w]
                got == {res[i] : i \in 1..Len(res)}
                eligible == C2_Eligible(src, dst)
            IN  /\ Len(res) = Min(n, Cardinality(eligible))
                /\ Cardinality(got) = Len(res)
                /\ got \subseteq eligible
                /\ \A i, j \in 1..Len(res) : i < j => C2_NotAfter(res[i], res[j])
                /\ \A a \in got, b \in eligible \ got : C2_NotAfter(a, b)
                /\ DOMAIN messages' = RowIds
                /\ \A id \in RowIds :
                      messages'[id] = IF id \in got
                                      THEN [messages[id] EXCEPT !.status = "processing"]
                                      ELSE messages[id]
      ]_vars

\* C2, the size of the answer: whatever the limit and the filter, a lease
\* called now returns min(n, k) rows, all of them among the k eligible rows.
C2_LeaseReturnsEligible ==
    \A n \in LeaseLimits, src \in SourceFilters, dst \in DestFilters :
        \A res \in LeaseResults(n, src, dst) :
            /\ Len(res) = Min(n, Cardinality(C2_Eligible(src, dst)))
            /\ Range(res) \subseteq C2_Eligible(src, dst)

\* C2 witness: rows enqueued with priorities LOW, CRITICAL, NORMAL were leased
\* in one batch as [CRITICAL, NORMAL, LOW].
C2_Witness ==
    /\ {1, 2, 3} \subseteq RowIds
    /\ messages[1].priority = LOW /\ messages[2].priority = CRITICAL
    /\ messages[3].priority = NORMAL
    /\ \E w \in Workers : held[w] = <<2, 3, 1>>
    /\ \A id \in {1, 2, 3} : messages[id].status = PROCESSING

\* C3: mark_failed on an existing message adds exactly 1 to retry_count; the
\* message is pending afterwards if the new count is below max_retries (no
\* dead-letter row is written), and otherwise it is failed and the call has
\* appended one dead-letter row for it.
C3_MarkFailedStep ==
    [][\A w \in Workers :
         (mark_failed(w) /\ Head(held[w]) \in RowIds) =>
            LET id == Head(held[w])
                old == messages[id]
                new == messages'[id]
            IN  /\ new.retry_count = old.retry_count + 1
                /\ IF new.retry_count < old.max_retries
                   THEN /\ new.status = PENDING
                        /\ failed_messages' = failed_messages
                   ELSE /\ new.status = FAILED
                        /\ Len(failed_messages') = Len(failed_messages) + 1
                        /\ failed_messages'[Len(failed_messages')].original_id = id
                        /\ SubSeq(failed_messages', 1, Len(failed_messages)) = failed_messages
       ]_vars

\* C3 witness: a failed attempt has returned a message to pending for a retry.
C3_Witness ==
    \E id \in RowIds :
        /\ messages[id].status = PENDING
        /\ messages[id].retry_count = 1
        /\ messages[id].error_message # Null
        /\ DeadLetters(id) = {}

\* the messages of scenario S3: max_retries = 3 and no attempt ever succeeded
AlwaysFailing(id) ==
    /\ id \in RowIds
    /\ messages[id].max_retries = DefaultMaxRetries
    /\ ~hist[id].completedOnce

\* C4 as claimed: with max_retries = 3 and an adapter that always fails, the
\* message is not failed and has no dead-letter row as long as retry_count is
\* at most 3 (three mark_failed calls), and once it is failed it has exactly
\* one dead-letter row and retry_count is 3 in both tables.
C4_AsClaimed ==
    \A id \in Ids : AlwaysFailing(id) =>
        /\ messages[id].retry_count <= 3 =>
              (messages[id].status # FAILED /\ DeadLetters(id) = {})
        /\ messages[id].status = FAILED =>
              /\ Cardinality(DeadLetters(id)) = 1
              /\ messages[id].retry_count = 3
              /\ \A i \in DeadLetters(id) : failed_messages[i].retry_count = 3

\* C4 amended: with max_retries = 3 and an adapter that always fails, the
\* message is not failed and has no dead-letter row after up to two
\* mark_failed calls; the third call leaves it failed with exactly one
\* dead-letter row, and retry_count is 3 in the messages row and in that row.
C4_ThirdFailureIsFinal ==
    \A id \in Ids : AlwaysFailing(id) =>
        /\ messages[id].retry_count <= 2 =>
              (messages[id].status # FAILED /\ DeadLetters(id) = {})
        /\ messages[id].retry_count = 3 =>
              /\ messages[id].status = FAILED
              /\ Cardinality(DeadLetters(id)) = 1
              /\ \A i \in DeadLetters(id) : failed_messages[i].retry_count = 3

\* C4 witness: the third failure has dead-lettered the message.
C4_Witness ==
    \E id \in Ids :
        /\ AlwaysFailing(id)
        /\ messages[id].retry_count = 3
        /\ messages[id].status = FAILED
        /\ Cardinality(DeadLetters(id)) = 1

\* C5: every message whose status is failed has exactly one dead-letter row,
\* and no message ever has a second dead-letter row.
C5_OneDeadLetterPerFailure ==
    /\ \A id \in RowIds : messages[id].status = FAILED => Cardinality(DeadLetters(id)) = 1
    /\ \A id \in Ids : Cardinality(DeadLetters(id)) <= 1

\* C6: completed, failed and expired are terminal: no step changes the status
\* of a row that has one of them.
C6_TerminalIsFinal ==
    [][\A id \in RowIds \cap DOMAIN messages' :
          messages[id].status \in Terminal => messages'[id].status = messages[id].status
      ]_vars

\* C7: a row whose processed_at is set has status completed, failed or expired.
C7_ProcessedAtIsTerminal ==
    \A id \in RowIds : messages[id].processed_at # Null => messages[id].status \in Terminal

\* C8: a row becomes expired only in a sweep, at a time when its expire_at
\* has passed, and a message that was completed once is never expired.
C8_ExpiredOnlyUncompleted ==
    [][\A id \in DOMAIN messages' :
          /\ (messages'[id].status = EXPIRED /\ (id \notin RowIds \/ messages[id].status # EXPIRED))
                => (cleanup /\ id \in RowIds /\ messages[id].expire_at < now)
          /\ hist'[id].completedOnce => messages'[id].status # EXPIRED
      ]_vars

\* C9: no step lowers a retry_count; a row whose retry_count has reached
\* max_retries is never pending or processing and has a dead-letter row; and a
\* mark_failed that brings retry_count to max_retries or more leaves the row
\* failed.
C9_RetryBudget ==
    [][/\ \A id \in RowIds \cap DOMAIN messages' :
             messages'[id].retry_count >= messages[id].retry_count
       /\ \A id \in DOMAIN messages' :
             messages'[id].retry_count >= messages'[id].max_retries =>
                /\ messages'[id].status \notin {PENDING, PROCESSING}
                /\ DeadLetters(id)' # {}
       /\ \A w \in Workers :
             (mark_failed(w) /\ Head(held[w]) \in RowIds) =>
                LET new == messages'[Head(held[w])]
                IN  new.retry_count >= new.max_retries => new.status = FAILED
      ]_vars

\* C9 witness: a worker that still held a dead-lettered message failed it
\* again, so its retry_count has passed max_retries.
C9_Witness ==
    \E id \in RowIds :
        /\ messages[id].retry_count > messages[id].max_retries
        /\ messages[id].status = FAILED

\* C10: as long as no row has been deleted, the runtime counters equal the
\* row counts: added = rows ever inserted, processed = completed rows,
\* failed = failed rows, expired = expired rows.
C10_CountersMatchRows ==
    Cardinality(RowIds) = lastId =>
        /\ stats.messages_added = lastId
        /\ stats.messages_processed = CountStatus(COMPLETED)
        /\ stats.messages_failed = CountStatus(FAILED)
        /\ stats.messages_expired = CountStatus(EXPIRED)

\* the messages that were leased when the process ended and that the next
\* start has reset
Recovered(id) ==
    /\ id \in DOMAIN abandoned
    /\ abandoned[id].by = "exit"
    /\ abandoned[id].reset

LeftByStop(id) ==
    /\ id \in DOMAIN abandoned
    /\ abandoned[id].by = "break"
    /\ ~abandoned[id].reset

C13_NoLossBeforeTerminal ==
    [][\A id \in RowIds \ DOMAIN messages' : messages[id].status \in Terminal]_vars

\* C14: the number of pending and processing messages never exceeds max_size
\* (add_message refuses the message when the buffer is still full after the
\* overflow policy ran).
C14_CapacityBound == get_pending_count <= MaxSize

\* Python's == on the modelled values
SameValue(a, b) ==
    /\ a.type = b.type
    /\ CASE a.type = "str" -> a.text = b.text
         [] a.type = "int" -> a.int = b.int
         [] a.type = "bool" -> a.bool = b.bool
         [] OTHER -> TRUE

\* C15: the value of the message a lease returns equals the value that was
\* passed to add_message.
C15_ValueRoundTrip ==
    payload.stage = "leased" => SameValue(payload.returned, payload.value)

\* C16: add_message stores the new row with status pending, whatever status
\* the caller's message carries.
C16_StoredPending ==
    [][\A msg \in CallerMessages :
          add_message(msg) => messages'[lastId + 1].status = PENDING]_vars

\* C17: add_message inserts no row for a message whose priority is not one of
\* LOW, NORMAL, HIGH, CRITICAL: messages, messages_added and the id sequence
\* are as before the call.
C17_PriorityValidated ==
    [][\A msg \in CallerMessages :
          (add_message(msg) /\ msg.priority \notin {LOW, NORMAL, HIGH, CRITICAL}) =>
              /\ messages' = messages
              /\ lastId' = lastId
              /\ stats'.messages_added = stats.messages_added]_vars

\* the rows whose expire_at has passed on the clock that wrote it
\* (datetime.now() of the process) and that are pending or processing
C18_Due ==
    {id \in RowIds : /\ messages[id].status \in {PENDING, PROCESSING}
                     /\ messages[id].expire_at < LocalNow}

\* C18: a sweep gives status expired to exactly the pending and processing
\* rows whose expire_at has passed, leaves the status of every other row it
\* keeps unchanged, writes no dead-letter row and adds the number of rows it
\* moved to messages_expired.
C18_SweepExact ==
    [][cleanup =>
          /\ \A id \in RowIds \cap DOMAIN messages' :
                messages'[id].status = IF id \in C18_Due THEN EXPIRED
                                       ELSE messages[id].status
          /\ failed_messages' = failed_messages
          /\ stats'.messages_expired = stats.messages_expired + Cardinality(C18_Due)
      ]_vars

C20_NoLeaseAfterStop ==
    [][\A dst \in Destinations : BridgeLease(dst) => running]_vars

\* C21: mark_failed is the only retry primitive: within one lease of a
\* message the egress side sends at most one delivery attempt to the
\* destination; a failed attempt is repeated only after mark_failed made the
\* message pending and it was leased again (no sleep and retry in place).
C21_OneAttemptPerLease == push.stage = "call" => Len(push.answers) <= 1

\* rows a and b belong to the same (priority, source, destination) tuple
SameRoute(a, b) ==
    /\ a.source = b.source
    /\ a.destination = b.destination
    /\ a.priority = b.priority

\* C22: with the single worker of the bridge (batch size 10), messages of one
\* (source, destination, priority) tuple are completed in ascending created_at
\* order when no attempt at them fails: when the worker completes a message,
\* no older message of its tuple that never failed is still waiting to be
\* delivered (pending with its expire_at ahead, or leased).
C22_FifoWithinRoute ==
    [][\A dst \in Destinations :
          (/\ BridgeMark(dst)
           /\ pc = Returned(dst)
           /\ Head(held[BridgeTask]) \in RowIds) =>
             LET m == Head(held[BridgeTask])
             IN  \A r \in DOMAIN messages' \ {m} :
                    (/\ SameRoute(messages'[r], messages'[m])
                     /\ messages'[r].created_at < messages'[m].created_at
                     /\ messages'[r].retry_count = 0
                     /\ messages'[m].retry_count = 0)
                    => ~ \/ messages'[r].status = PROCESSING
                         \/ /\ messages'[r].status = PENDING
                            /\ messages'[r].expire_at > now'
      ]_vars

\* C22 witness: two messages of one route with distinct created_at were
\* leased by the worker and completed in its first run, without a failure.
C22_Witness ==
    /\ {1, 2} \subseteq RowIds
    /\ SameRoute(messages[1], messages[2])
    /\ messages[1].created_at < messages[2].created_at
    /\ messages[1].status = COMPLETED /\ messages[2].status = COMPLETED
    /\ messages[1].retry_count = 0 /\ messages[2].retry_count = 0
    /\ hist[1].handed = {BridgeTask} /\ hist[2].handed = {BridgeTask}
    /\ restarts = 1

\* the address of mapping m on the side of adapter, and on the other side
C23_SourceAddress(adapter, m) == IF adapter = "mqtt" THEN m.mqtt_topic ELSE m.opcua_node_id
C23_DestinationAddress(adapter, m) ==
    IF adapter = "mqtt" THEN m.opcua_node_id ELSE m.mqtt_topic

\* the direction of mapping m allows the flow that starts at adapter
C23_Allows(adapter, m) ==
    \/ m.direction = "bidirectional"
    \/ adapter = "mqtt" /\ m.direction = "mqtt_to_opcua"
    \/ adapter = "opcua" /\ m.direction = "opcua_to_mqtt"

\* C23: for a value change observed at source address A the ingress adapter
\* enqueues exactly one message for every mapping whose source address is A
\* and whose direction allows the flow (all of them when several share A) and
\* none for the other mappings; each is a new message with an id of its own,
\* also when the same value at the same address was enqueued before.
C23_OnePerMatchingMapping ==
    ingress.stage \in {"loop", "done"} =>
        LET a == ingress.adapter
            due == {i \in 1..(ingress.i - 1) :
                       /\ C23_SourceAddress(a, mappings[i]) = ingress.address
                       /\ C23_Allows(a, mappings[i])}
            built == ingress.built
        IN  /\ {built[k] : k \in 1..Len(built)} = due
            /\ Len(built) = Cardinality(due)
            /\ lastId = ingress.first + Len(built)
            /\ \A k \in 1..Len(built) :
                  (ingress.first + k) \in RowIds =>
                     LET row == messages[ingress.first + k]
                         m == mappings[built[k]]
                     IN  /\ row.source = a
                         /\ row.mapping_id = <<m.mqtt_topic, m.opcua_node_id>>
                         /\ row.status = PENDING

\* C24: every message an ingress adapter has built carries the
\* destination-side address of its mapping in topic_or_node and the priority
\* configured in that mapping.
C24_MessageFollowsMapping ==
    \A id \in RowIds :
        \E i \in 1..Len(mappings) :
            /\ messages[id].mapping_id = <<mappings[i].mqtt_topic, mappings[i].opcua_node_id>>
            /\ messages[id].topic_or_node = C23_DestinationAddress(messages[id].source, mappings[i])
            /\ messages[id].priority = PriorityValue(mappings[i].priority)

\* C25: a message enqueued by the SAP poll loop for destination mqtt or opcua
\* is delivered and completed by the worker of the bridge; while the
\* destination is healthy it is not failed and not dead-lettered.
C25_InboundNotDeadLettered ==
    \A id \in RowIds :
        messages[id].source = "sap"
            => messages[id].status # FAILED /\ DeadLetters(id) = {}

\* C26: an exception raised while a worker loop handles one item is caught
\* at the loop boundary: while the service runs, the poll task is alive.
C26_PollSurvives == sap_running => poll # PollDead

\* C27: the SAP sync service, like the bridge, calls
\* reset_processing_messages at startup before its first lease: after its
\* start no row is left in processing.
C27_SapStartResets ==
    [][sap_start => \A id \in RowIds : messages'[id].status # PROCESSING]_vars

\* a mapping of the bridge or of the SAP section names an unknown data
\* type, direction or priority
UnknownField(file) ==
    \/ \E i \in DOMAIN file.mappings :
          \/ file.mappings[i].data_type \notin ValidDataTypes
          \/ file.mappings[i].direction \notin Directions
          \/ file.mappings[i].priority \notin ValidPriorities
    \/ \E i \in DOMAIN file.sap.mappings :
          \/ file.sap.mappings[i].inbound.data_type \notin ValidDataTypes
          \/ file.sap.mappings[i].direction \notin ValidSapDirections
          \/ file.sap.mappings[i].priority \notin ValidPriorities

\* C28: load_config fails if and only if some mapping has an unknown
\* data_type, direction or priority; duplicates of an address are all kept.
C28_LoadFailsIffUnknown ==
    config.result \in {"loaded", "ValueError"} =>
        /\ config.result = "ValueError" <=> UnknownField(config.file)
        /\ config.result = "loaded" => mappings = config.file.mappings

\* C29: push returns True exactly when a POST was answered 200, 201 or 202,
\* it sends no POST after such an answer and never more than max_attempts
\* POSTs, and it returns False exactly after max_attempts POSTs that all
\* failed with another status or a request error.
C29_PushResult ==
    push.stage = "call" =>
        LET n == Len(push.answers)
            ok(i) == push.answers[i] \in {200, 201, 202}
        IN  /\ n <= push.max_attempts
            /\ \A i \in 1..(n - 1) : ~ok(i)
            /\ push.result = "True" <=> (n > 0 /\ ok(n))
            /\ push.result = "False" <=> (n >= push.max_attempts /\ \A i \in 1..n : ~ok(i))

\* a push that succeeded with 202 on its last attempt after failures
C29_Witness ==
    /\ push.stage = "call"
    /\ push.result = "True"
    /\ push.max_attempts = MaxAttempts
    /\ Len(push.answers) = MaxAttempts
    /\ push.answers[MaxAttempts] = 202
    /\ push.answers[1] = RequestError

\* C30: fetch returns the decoded JSON body when the endpoint answers 200
\* with a JSON body (an empty collection included), and returns None without
\* raising for every other status and for a request error.
C30_FetchResult ==
    (fetch.stage = "call" /\ fetch.result # Null) =>
        LET answer == fetch.answer
            result == fetch.result[1]
        IN  IF answer.status = RequestError \/ answer.status # 200
            THEN result = Fetched(PyNone)
            ELSE response_json(answer.body).ok
                    => result = Fetched(response_json(answer.body).value)

\* fetch returned the empty collection of a 200 answer
C30_Witness ==
    /\ fetch.stage = "call"
    /\ fetch.answer = [status |-> 200, body |-> EmptyCollectionText]
    /\ fetch.result = Some(Fetched(PyEmptyCollection))

\* the numeric value of a priority name
C31_Numeric(name) ==
    CASE name = "low" -> 0 [] name = "normal" -> 1
      [] name = "high" -> 2 [] name = "critical" -> 3

\* C31: for a mapping without an inbound transform, sap_to_bridge returns a
\* message with source sap, the mapping's inbound destination and target,
\* the payload unchanged as value and the number of the mapping's priority.
C31_SapToBridge ==
    (payload.stage = "sap_to_bridge returned" /\ payload.mapping.transform = "identity") =>
        /\ payload.result # Null
        /\ LET buffered == payload.result[1]
           IN  /\ buffered.source = "sap"
               /\ buffered.destination = payload.mapping.destination
               /\ buffered.topic_or_node = payload.mapping.target
               /\ buffered.value = payload.item
               /\ buffered.priority = C31_Numeric(payload.mapping.priority)

\* sap_to_bridge returned for a critical mapping to an OPC-UA node and an
\* object payload
C31_Witness ==
    /\ payload.stage = "sap_to_bridge returned"
    /\ payload.mapping = [destination |-> "opcua", target |-> "ns=2;i=1",
                          priority |-> "critical", transform |-> "identity"]
    /\ payload.item = PyDict(<<"Order">>, <<PyInt(1)>>)
    /\ payload.result # Null

\* C32: for a mapping without an outbound transform, bridge_to_sap returns
\* the message value unchanged when it is an object and {"value": v} for
\* every other value v.
C32_BridgeToSap ==
    payload.stage = "bridge_to_sap returned" =>
        LET v == payload.message.value
        IN  IF v.type = "dict" THEN payload.result = v
            ELSE payload.result = [type |-> "dict", keys |-> <<"value">>, values |-> <<v>>]

\* bridge_to_sap returned the object of the message as it is
C32_Witness ==
    /\ payload.stage = "bridge_to_sap returned"
    /\ payload.message.value = PyDict(<<"Order">>, <<PyInt(1)>>)
    /\ payload.result = payload.message.value

\* C33: the overflow policy run by add_message never removes a message
\* whose status is pending, processing or failed.
C33_OverflowSparesLive ==
    [][lastId' = lastId + 1 =>
          \A id \in RowIds :
              id \notin DOMAIN messages'
                  => messages[id].status \notin {PENDING, PROCESSING, FAILED}]_vars

\* C34: in every reachable state each message whose status is completed,
\* failed or expired has a non-null processed_at.
C34_TerminalHasProcessedAt ==
    \A id \in RowIds :
        messages[id].status \in {COMPLETED, FAILED, EXPIRED}
            => messages[id].processed_at # Null

\* C35: immediately after the operator command reset ran, no message has
\* status processing, whatever the age of the message.
C35_ResetLeavesNoProcessing ==
    [][reset_stuck_messages => \A id \in RowIds : messages'[id].status # PROCESSING]_vars

\* C36: reset_processing_messages changes only the status of the rows in
\* processing, to pending: every other column and every other row stays as
\* it is, no row appears or disappears and no dead-letter row is written.
C36_ResetFrame ==
    [][reset_processing_messages =>
          /\ DOMAIN messages' = DOMAIN messages
          /\ \A id \in RowIds :
                messages'[id] = IF messages[id].status = PROCESSING
                                THEN [messages[id] EXCEPT !.status = PENDING]
                                ELSE messages[id]
          /\ failed_messages' = failed_messages]_vars

\* a message that had failed once was leased again, the process was killed,
\* and the reset of the restart made it pending with its retry count as it was
C36_Witness ==
    \E id \in RowIds :
        /\ Recovered(id)
        /\ ~abandoned[id].again
        /\ messages[id].status = PENDING
        /\ messages[id].retry_count = 1

\* C37: mark_completed(id) and mark_failed(id) called with an id that has no
\* row return False and leave every message row, the dead-letter table and
\* the runtime counters unchanged.
C37_NoRowNoEffect ==
    [][\A w \in Workers :
          (/\ held[w] # <<>>
           /\ Head(held[w]) \notin RowIds
           /\ mark_completed(w) \/ mark_failed(w))
          => /\ ~MarkReturns(Head(held[w]))
             /\ messages' = messages
             /\ failed_messages' = failed_messages
             /\ stats' = stats]_vars

\* a message was leased, its row was deleted under the worker, and the
\* worker has made its call for it: no batch is open, another row exists
C37_Witness ==
    /\ \E id \in Ids : id \notin RowIds /\ id <= lastId /\ hist[id].handed # {}
    /\ \A w \in Workers : held[w] = <<>>
    /\ RowIds # {}

\* the live tasks running the coroutine of this name
C38_Live(name) == {t \in manager.live : t.name = name}

\* C38: start while running, or with SAP disabled, creates no task, so at
\* most one buffer-to-SAP task and one poll task exist at any time; stop
\* cancels both and empties the task list and is a no-op when not running;
\* a start after stop creates exactly two fresh tasks.
C38_StartStopIdempotent ==
    /\ [](manager.stage # "none" =>
            /\ Cardinality(C38_Live("sap-buffer-to-sap")) <= 1
            /\ Cardinality(C38_Live("sap-poll")) <= 1
            /\ (manager.stage = "idle" /\ ~sap_running)
                  => manager.tasks = <<>> /\ manager.live = {}
            /\ ~manager.enabled => manager.created = 0 /\ ~sap_running)
    /\ [][/\ ManagerStart =>
               IF manager.enabled /\ ~sap_running
               THEN /\ sap_running'
                    /\ manager'.created = manager.created + 2
                    /\ Len(manager'.tasks) = 2
                    /\ manager'.tasks[1] # manager'.tasks[2]
                    /\ Range(manager'.tasks) \cap (manager.live \cup manager.cancelled) = {}
                    /\ manager'.live = Range(manager'.tasks)
               ELSE /\ sap_running' = sap_running
                    /\ manager'.created = manager.created
                    /\ manager'.tasks = manager.tasks
                    /\ manager'.live = manager.live
          /\ ManagerStop =>
               IF sap_running
               THEN ~sap_running' /\ Range(manager.tasks) \subseteq manager'.cancelled
               ELSE /\ ~sap_running'
                    /\ manager'.tasks = manager.tasks
                    /\ manager'.live = manager.live
                    /\ manager'.cancelled = manager.cancelled
         ]_vars

\* start, a second start, stop, a second stop and a start again: the third
\* and the fourth task created are the two that are alive
C38_Witness ==
    /\ manager.stage = "idle"
    /\ sap_running
    /\ manager.calls = 5
    /\ manager.created = 4
    /\ manager.live = {Task(3, "sap-buffer-to-sap"), Task(4, "sap-poll")}

\* C39: with the single worker of the bridge, first delivery attempts within
\* one (source, destination, priority) tuple are in created_at order, also
\* when attempts fail: while the worker awaits the handler of a message b
\* that has not failed yet, no older message of its tuple is still unattempted
\* and deliverable (a row with retry_count 0 that is leased, or pending with
\* its expire_at ahead); an older message that failed has retry_count >= 1.
C39_FirstAttemptsFifo ==
    \A dst \in Destinations :
       (/\ pc = Await(dst)
        /\ Head(held[BridgeTask]) \in RowIds
        /\ messages[Head(held[BridgeTask])].retry_count = 0) =>
          LET b == Head(held[BridgeTask])
          IN  \A a \in RowIds \ {b} :
                 (/\ SameRoute(messages[a], messages[b])
                  /\ messages[a].created_at < messages[b].created_at
                  /\ messages[a].retry_count = 0)
                 => ~ \/ messages[a].status = PROCESSING
                      \/ /\ messages[a].status = PENDING
                         /\ messages[a].expire_at > now

\* C39 witness: the older message of a route failed its first attempt and is
\* pending again with retry_count 1 while the worker is at the first attempt
\* of the younger one.
C39_Witness ==
    /\ {1, 2} \subseteq RowIds
    /\ SameRoute(messages[1], messages[2])
    /\ messages[1].created_at < messages[2].created_at
    /\ messages[1].status = PENDING /\ messages[1].retry_count = 1
    /\ pc = Await(messages[2].destination)
    /\ held[BridgeTask] # <<>> /\ Head(held[BridgeTask]) = 2
    /\ messages[2].retry_count = 0

\* C40: reset_processing_messages at the start of one process never returns
\* to pending a message that a live worker of another process on the same db
\* file is processing: when the bridge starts, every row that the running
\* _process_buffer_to_sap task of the SAP sync service holds in its batch and
\* that is in processing stays in processing.
C40_ResetSparesLiveLeases ==
    [][start =>
          \A id \in Range(held[SapTask]) \cap RowIds :
             (sap_pc # "down" /\ messages[id].status = PROCESSING)
             => messages'[id].status = PROCESSING
      ]_vars

====
